---- MODULE Spec2Model ----
(***************************************************************************)
(* Model of extract_dxf_coords.py: the DXF entity classifier, the curve    *)
(* approximators, the file-name generator and the one-pass driver          *)
(* extract_geometries_from_dxf, with the properties claimed of them.       *)
(*                                                                         *)
(* Conventions.                                                            *)
(*   - A Python str that the code inspects character by character (a layer *)
(*     name, a file name) is a sequence of one-character strings.          *)
(*   - A Python float is an exact rational; a sampled point               *)
(*       center + radius * (cos a, sin a)                                  *)
(*     is kept symbolically as [x, y, rx, ry, rd, num, den]: centre (x,y), *)
(*     radii rx/rd and ry/rd, angle num/den degrees.  A plain vertex has   *)
(*     rx = ry = 0.                                                        *)
(*   - A call that may raise returns [st, pts]: st = "ok" (pts is the      *)
(*     returned list), "none" (returned None) or "raise" (an exception     *)
(*     left the function).                                                 *)
(***************************************************************************)
EXTENDS Integers, Sequences, FiniteSets, TLC

VARIABLES
    msp,              \* the modelspace: the entity stream of the document
    allow_types,      \* <<>> for None, else <<set of type strings>>
    allow_layers,     \* <<>> for None, else <<set of layer names>>
    src_crs,          \* <<>> for None, else <<crs name>>
    Transformer,      \* TRUE iff pyproj imported (line 36), FALSE iff None
    pos,              \* iterator of `for entity in msp`: entities consumed
    entity_index,
    lines_features,
    areas_features,
    individual_files,
    disk,             \* output_dir: set of [name, content]
    summary,          \* <<>> until summary.geojson is written, then <<doc>>
    pc,               \* "loop", "done", "exit" (SystemExit), "error" (exception)
    run,              \* 1 for the first run, 2 for a repetition
    prevSummary,      \* summary of the first run, once repeated
    ent,              \* argument of a function applied on its own
    ret               \* <<>> before the call, <<result>> after

vars == <<msp, allow_types, allow_layers, src_crs, Transformer, pos,
          entity_index, lines_features, areas_features, individual_files,
          disk, summary, pc, run, prevSummary, ent, ret>>

-----------------------------------------------------------------------------
(* Bounds of the model *)

MaxEntities == 3        \* longest entity stream
MaxPaths == 3           \* longest HATCH boundary-path list drawn on its own

-----------------------------------------------------------------------------
(* Values *)

Ok(s) == [st |-> "ok", pts |-> s]
None == [st |-> "none", pts |-> <<>>]
Raise == [st |-> "raise", pts |-> <<>>]

\* bool(x) of an Optional[List]: None and [] are falsy
Truthy(r) == r.st = "ok" /\ Len(r.pts) > 0

Range(s) == {s[i] : i \in DOMAIN s}

Max(a, b) == IF a >= b THEN a ELSE b

\* a raw (x, y) of the drawing
P(x, y) ==
    [x |-> x, y |-> y, rx |-> 0, ry |-> 0, rd |-> 1, num |-> 0, den |-> 1,
     crs |-> "raw"]

\* (cx + (rx/rd) cos a, cy + (ry/rd) sin a), a = num/den degrees
Polar(c, rx, ry, rd, num, den) ==
    [x |-> c.x, y |-> c.y, rx |-> rx, ry |-> ry, rd |-> rd, num |-> num,
     den |-> den, crs |-> "raw"]

_to_xy_tuple(point) == P(point.x, point.y)

\* [_to_xy_tuple(p) for p in pts]
XYList(pts) == [i \in DOMAIN pts |-> _to_xy_tuple(pts[i])]

-----------------------------------------------------------------------------
(* Program constants *)

FullTurn == 360         \* degrees added to end_angle; 2*pi radians
MinArcSteps == 8
DegPerStep == 5
CirclePoints == 32
EllipsePoints == 32
IndexWidth == 4         \* {index:04d}

-----------------------------------------------------------------------------
(* Geometry approximators *)

\* int(a / b) of Python: truncation toward zero (b > 0)
IntTrunc(a, b) == IF a >= 0 THEN a \div b ELSE -((-a) \div b)

\* round(a / b) of Python: to nearest, ties to even (b > 0, a >= 0)
PyRound(a, b) ==
    LET q == a \div b
        r == a % b
    IN  IF 2 * r < b THEN q
        ELSE IF 2 * r > b THEN q + 1
        ELSE IF q % 2 = 0 THEN q ELSE q + 1

\* end_angle after `if end_angle < start_angle: end_angle += 360`
NormalizedEnd(start_angle, end_angle) ==
    IF end_angle < start_angle THEN end_angle + FullTurn ELSE end_angle

\* the step count, were the quotient rounded: max(8, round(sweep / 5))
ArcStepsRounded(sweep) == Max(MinArcSteps, PyRound(sweep, DegPerStep))

\* num_points = max(8, int((end_angle - start_angle) / 5))
ArcSteps(sweep) == Max(MinArcSteps, IntTrunc(sweep, DegPerStep))

_approximate_arc(entity) ==
    IF ~entity.ok THEN <<>>
    ELSE LET start_angle == entity.start_angle
             end_angle == NormalizedEnd(entity.start_angle, entity.end_angle)
             num_points == ArcSteps(end_angle - start_angle)
         IN  [k \in 1..(num_points + 1) |->
                 \* i = k - 1; angle = start + (end - start) * i / num_points
                 Polar(_to_xy_tuple(entity.center), entity.radius,
                       entity.radius, 1,
                       start_angle * num_points
                           + (end_angle - start_angle) * (k - 1),
                       num_points)]

_approximate_circle(entity) ==
    IF ~entity.ok THEN <<>>
    ELSE LET points == [k \in 1..CirclePoints |->
                           Polar(_to_xy_tuple(entity.center), entity.radius,
                                 entity.radius, 1, FullTurn * (k - 1),
                                 CirclePoints)]
         IN  Append(points, points[1])

\* math.sqrt of a perfect square
Sqrt(n) == CHOOSE r \in 0..n : r * r = n

_approximate_ellipse(entity) ==
    IF ~entity.ok THEN <<>>
    ELSE LET major_axis == _to_xy_tuple(entity.major_axis)
             major_length ==
                 Sqrt(major_axis.x * major_axis.x + major_axis.y * major_axis.y)
             \* minor_length = major_length * ratio, ratio = n/d
             points == [k \in 1..EllipsePoints |->
                           Polar(_to_xy_tuple(entity.center),
                                 major_length * entity.ratio.d,
                                 major_length * entity.ratio.n,
                                 entity.ratio.d, FullTurn * (k - 1),
                                 EllipsePoints)]
         IN  Append(points, points[1])

\* entity.api: the first of approximate, flattening, control_points that
\* does not raise ("none": all three raise)
_approximate_spline(entity) ==
    LET pts == IF entity.api = "approximate" THEN entity.pts
               ELSE IF entity.api = "flattening" THEN entity.pts
               ELSE IF entity.api = "control_points" THEN entity.control_points
               ELSE <<>>
    IN  XYList(pts)

-----------------------------------------------------------------------------
(* Entity classifier *)

\* the line path, were a closed polyline left to the area path
LinePathClosedToArea(entity) ==
    IF entity.dxftype = "LINE"
    THEN IF entity.ok THEN Ok(<<_to_xy_tuple(entity.start),
                                _to_xy_tuple(entity.end)>>)
         ELSE Raise
    ELSE IF entity.dxftype = "LWPOLYLINE"
    THEN IF ~entity.ok THEN Raise
         ELSE IF entity.closed THEN None
         ELSE Ok(XYList(entity.pts))
    ELSE IF entity.dxftype = "POLYLINE"
    THEN IF entity.ok /\ entity.closed THEN None
         ELSE Ok(XYList(IF entity.ok THEN entity.pts ELSE <<>>))
    ELSE IF entity.dxftype = "SPLINE" THEN Ok(_approximate_spline(entity))
    ELSE None

_collect_line_coords(entity) ==
    IF entity.dxftype = "LINE"
    THEN \* entity.dxf.start / .end are read outside any try
         IF entity.ok THEN Ok(<<_to_xy_tuple(entity.start),
                                _to_xy_tuple(entity.end)>>)
         ELSE Raise
    ELSE IF entity.dxftype = "LWPOLYLINE"
    THEN \* entity.get_points() is read outside any try
         IF entity.ok THEN Ok(XYList(entity.pts)) ELSE Raise
    ELSE IF entity.dxftype = "POLYLINE"
    THEN \* try: pts = [v.dxf.location ...] except: pts = []
         Ok(XYList(IF entity.ok THEN entity.pts ELSE <<>>))
    ELSE IF entity.dxftype = "SPLINE" THEN Ok(_approximate_spline(entity))
    ELSE None

\* the loop `for path in entity.paths` with its accumulator `paths`;
\* "raise" as soon as a vertex read fails
RECURSIVE HatchLoop(_, _)
HatchLoop(rest, paths) ==
    IF rest = <<>> THEN Ok(paths)
    ELSE LET path == Head(rest)
         IN  IF ~path.hasVertices THEN HatchLoop(Tail(rest), paths)
             ELSE IF ~path.ok THEN Raise
             ELSE LET path_points == XYList(path.vertices)
                  IN  IF path_points # <<>>
                      THEN HatchLoop(Tail(rest), Append(paths, path_points))
                      ELSE HatchLoop(Tail(rest), paths)

\* the HATCH branch, were only entity.paths[0] read
HatchPathAtZero(entity) ==
    IF ~entity.ok \/ entity.paths = <<>> THEN None
    ELSE LET path == entity.paths[1]
         IN  IF path.hasVertices /\ path.ok /\ path.vertices # <<>>
             THEN Ok(XYList(path.vertices))
             ELSE None

\* the HATCH branch: `return paths[0] if paths else None`, None on raise
HatchCoords(entity) ==
    IF ~entity.ok THEN None
    ELSE LET r == HatchLoop(entity.paths, <<>>)
         IN  IF r.st = "raise" THEN None
             ELSE IF r.pts # <<>> THEN Ok(r.pts[1])
             ELSE None

_collect_area_coords(entity) ==
    IF entity.dxftype = "CIRCLE" THEN Ok(_approximate_circle(entity))
    ELSE IF entity.dxftype = "ELLIPSE" THEN Ok(_approximate_ellipse(entity))
    ELSE IF entity.dxftype = "ARC" THEN Ok(_approximate_arc(entity))
    ELSE IF entity.dxftype = "HATCH" THEN HatchCoords(entity)
    ELSE IF entity.dxftype \in {"LWPOLYLINE", "POLYLINE"}
    THEN \* try: if entity.closed: return [...] except: pass
         IF entity.ok /\ entity.closed
         THEN Ok(XYList(entity.pts))
         ELSE None
    ELSE None

\* the line threshold, were it len >= 1
LineAcceptedFromOne(line_coords) ==
    Truthy(line_coords) /\ Len(line_coords.pts) >= 1

\* `if line_coords and len(line_coords) >= 2`
LineAccepted(line_coords) ==
    Truthy(line_coords) /\ Len(line_coords.pts) >= 2

\* `if area_coords and len(area_coords) >= 3`
AreaAccepted(area_coords) ==
    Truthy(area_coords) /\ Len(area_coords.pts) >= 3

-----------------------------------------------------------------------------
(* Coordinate transform *)

\* transformer.transform(xs, ys) of pyproj, one point of the batch
Reproject(p) == [p EXCEPT !.crs = "dst"]

\* st = "exit": SystemExit raised
_transform_points(points, crs, haveTransformer) ==
    IF crs = <<>> THEN Ok(points)
    ELSE IF ~haveTransformer THEN [st |-> "exit", pts |-> <<>>]
    ELSE Ok([i \in DOMAIN points |-> Reproject(points[i])])

-----------------------------------------------------------------------------
(* Properties and file names *)

Digit == <<"0", "1", "2", "3", "4", "5", "6", "7", "8", "9">>
Alnum == {"A", "B", "a", "e", "l", "r", "y"} \cup Range(Digit)

\* str.upper() on the type names that occur
Upper(t) ==
    IF t = "line" THEN "LINE"
    ELSE IF t = "circle" THEN "CIRCLE"
    ELSE IF t = "Hatch" THEN "HATCH"
    ELSE t

\* getattr(entity.dxf, "layer", "0")
LayerOr0(entity) == IF entity.hasLayer THEN entity.layer ELSE <<"0">>

_get_entity_properties(entity) ==
    [type |-> entity.dxftype, layer |-> LayerOr0(entity)]

RECURSIVE Digits(_)
Digits(n) == IF n < 10 THEN <<Digit[n + 1]>>
             ELSE Append(Digits(n \div 10), Digit[(n % 10) + 1])

RECURSIVE ZeroPad(_, _)
ZeroPad(s, width) == IF Len(s) >= width THEN s ELSE ZeroPad(<<"0">> \o s, width)

\* f"{index:04d}"
Format04d(index) == ZeroPad(Digits(index), IndexWidth)

RECURSIVE RStrip(_, _)
RStrip(s, c) ==
    IF s # <<>> /\ s[Len(s)] = c THEN RStrip(SubSeq(s, 1, Len(s) - 1), c) ELSE s

KeepChar(c) == c \in Alnum \/ c \in {"_", "-"}

SafeLayer(layer) ==
    LET kept == RStrip(SelectSeq(layer, KeepChar), "_")
    IN  IF kept = <<>> THEN <<"l", "a", "y", "e", "r">> ELSE kept

\* the file name, were the index formatted one too high
FilenameOffByOne(entity, index) ==
    SafeLayer(LayerOr0(entity)) \o <<"_", entity.dxftype, "_">>
        \o Format04d(index + 1) \o <<".geojson">>

\* f"{safe_layer}_{etype}_{index:04d}.geojson", relative to output_dir
_generate_filename(entity, index) ==
    SafeLayer(LayerOr0(entity)) \o <<"_", entity.dxftype, "_">>
        \o Format04d(index) \o <<".geojson">>

-----------------------------------------------------------------------------
(* Inputs: entities as the document parser supplies them *)

XY(x, y) == [x |-> x, y |-> y]

\* an entity of an unsupported type, every field at a default
E0 ==
    [dxftype |-> "TEXT", hasLayer |-> TRUE, layer |-> <<"A">>, ok |-> TRUE,
     start |-> XY(0, 0), end |-> XY(0, 0), pts |-> <<>>,
     control_points |-> <<>>, closed |-> FALSE, api |-> "none",
     center |-> XY(0, 0), radius |-> 0, start_angle |-> 0, end_angle |-> 0,
     major_axis |-> XY(0, 0), ratio |-> [n |-> 1, d |-> 1], paths |-> <<>>]

Tri == <<XY(0, 0), XY(4, 0), XY(0, 3)>>
Quad == <<XY(1, 1), XY(5, 1), XY(5, 5), XY(1, 5)>>

\* boundary paths of a HATCH: a polyline path has `vertices`, an edge
\* path has none
PolyPath(v) == [hasVertices |-> TRUE, ok |-> TRUE, vertices |-> v]
EdgePath == [hasVertices |-> FALSE, ok |-> TRUE, vertices |-> <<>>]
BadPath == [hasVertices |-> TRUE, ok |-> FALSE, vertices |-> <<>>]

Catalogue ==
    { [E0 EXCEPT !.dxftype = "LINE", !.end = XY(10, 10)],
      [E0 EXCEPT !.dxftype = "LINE", !.layer = <<"A", "_">>, !.ok = FALSE],
      [E0 EXCEPT !.dxftype = "line", !.end = XY(10, 10)],
      [E0 EXCEPT !.dxftype = "LWPOLYLINE", !.layer = <<"B">>,
                 !.closed = TRUE, !.pts = <<XY(2, 2)>>],
      [E0 EXCEPT !.dxftype = "LWPOLYLINE", !.hasLayer = FALSE,
                 !.layer = <<>>, !.closed = TRUE, !.pts = Tri],
      [E0 EXCEPT !.dxftype = "POLYLINE", !.closed = TRUE, !.ok = FALSE],
      [E0 EXCEPT !.dxftype = "POLYLINE", !.layer = <<"B", "-", "1">>,
                 !.closed = TRUE, !.pts = Quad],
      [E0 EXCEPT !.dxftype = "SPLINE", !.api = "control_points",
                 !.control_points = Tri],
      [E0 EXCEPT !.dxftype = "CIRCLE", !.layer = <<"B">>, !.radius = 1],
      [E0 EXCEPT !.dxftype = "ELLIPSE", !.layer = <<"/">>,
                 !.major_axis = XY(3, 4), !.ratio = [n |-> 1, d |-> 2]],
      [E0 EXCEPT !.dxftype = "ARC", !.radius = 10, !.start_angle = 350,
                 !.end_angle = 40],
      [E0 EXCEPT !.dxftype = "HATCH", !.layer = <<"B">>,
                 !.paths = <<EdgePath, PolyPath(Tri), PolyPath(Quad)>>],
      [E0 EXCEPT !.dxftype = "HATCH", !.paths = <<PolyPath(Tri), BadPath>>] }

RECURSIVE SeqsUpTo(_, _)
SeqsUpTo(S, n) ==
    IF n = 0 THEN {<<>>}
    ELSE LET shorter == SeqsUpTo(S, n - 1)
         IN  shorter \cup {Append(s, x) : s \in shorter, x \in S}

TypeOptions ==
    {<<>>, <<{"LINE"}>>, <<{"line", "circle", "Hatch", "LWPOLYLINE"}>>}
LayerOptions == {<<>>, <<{<<"A">>}>>}
CrsOptions == {<<>>, <<"EPSG:4547">>}

-----------------------------------------------------------------------------
(* The driver: extract_geometries_from_dxf *)

Init ==
    /\ msp \in SeqsUpTo(Catalogue, MaxEntities)
    /\ allow_types \in TypeOptions
    /\ allow_layers \in LayerOptions
    /\ src_crs \in CrsOptions
    /\ Transformer \in BOOLEAN
    /\ pos = 0
    /\ entity_index = 0
    /\ lines_features = <<>>
    /\ areas_features = <<>>
    /\ individual_files = <<>>
    /\ disk = <<>>
    /\ summary = <<>>
    /\ pc = "loop"
    /\ run = 1
    /\ prevSummary = <<>>
    /\ ent = E0
    /\ ret = <<>>

\* types = None if allow_types is None else {t.upper() for t in allow_types}
Types == IF allow_types = <<>> THEN <<>>
         ELSE <<{Upper(t) : t \in allow_types[1]}>>

\* the type filter, were its membership test inverted
TypeFilterInverted(entity) ==
    Types # <<>> /\ Upper(entity.dxftype) \in Types[1]

\* `if types is not None and etype.upper() not in types: continue`
TypeFiltered(entity) ==
    Types # <<>> /\ Upper(entity.dxftype) \notin Types[1]

\* `if layers is not None: try: if layer not in layers: continue;
\*  except: pass`
LayerFiltered(entity) ==
    /\ allow_layers # <<>>
    /\ entity.hasLayer
    /\ entity.layer \notin allow_layers[1]

Feature(entity, gtype, coordinates) ==
    [type |-> "Feature",
     properties |-> _get_entity_properties(entity),
     geometry |-> [type |-> gtype, coordinates |-> coordinates]]

\* individual_file.write_text(...): creates or overwrites
WriteText(d, name, content) ==
    [n \in DOMAIN d \cup {name} |-> IF n = name THEN content ELSE d[n]]

Skip ==
    /\ pos' = pos + 1
    /\ UNCHANGED <<entity_index, lines_features, areas_features,
                   individual_files, disk, pc>>

Abort(how) ==
    /\ pc' = how
    /\ UNCHANGED <<pos, entity_index, lines_features, areas_features,
                   individual_files, disk>>

EmitLine(entity, transformed) ==
    LET individual_file == _generate_filename(entity, entity_index)
        feature == Feature(entity, "LineString", transformed)
    IN  /\ disk' = WriteText(disk, individual_file, feature)
        /\ individual_files' = Append(individual_files, individual_file)
        /\ lines_features' = Append(lines_features, feature)
        /\ entity_index' = entity_index + 1
        /\ pos' = pos + 1
        /\ UNCHANGED <<areas_features, pc>>

EmitArea(entity, transformed) ==
    LET individual_file == _generate_filename(entity, entity_index)
        feature == Feature(entity, "Polygon", <<transformed>>)
    IN  /\ disk' = WriteText(disk, individual_file, feature)
        /\ individual_files' = Append(individual_files, individual_file)
        /\ areas_features' = Append(areas_features, feature)
        /\ entity_index' = entity_index + 1
        /\ pos' = pos + 1
        /\ UNCHANGED <<lines_features, pc>>

\* one iteration of `for entity in msp`
ProcessEntity ==
    /\ pc = "loop"
    /\ pos < Len(msp)
    /\ LET entity == msp[pos + 1]
           line_coords == _collect_line_coords(entity)
           area_coords == _collect_area_coords(entity)
           tl == _transform_points(line_coords.pts, src_crs, Transformer)
           ta == _transform_points(area_coords.pts, src_crs, Transformer)
       IN  IF TypeFiltered(entity) \/ LayerFiltered(entity) THEN Skip
           ELSE IF line_coords.st = "raise" THEN Abort("error")
           ELSE IF LineAccepted(line_coords)
           THEN IF tl.st = "exit" THEN Abort("exit")
                ELSE EmitLine(entity, tl.pts)
           ELSE IF AreaAccepted(area_coords)
           THEN IF ta.st = "exit" THEN Abort("exit")
                ELSE EmitArea(entity, ta.pts)
           ELSE Skip
    /\ UNCHANGED <<msp, allow_types, allow_layers, src_crs, Transformer,
                   summary, run, prevSummary, ent, ret>>

\* the orders list(set(...)) can give: str hashing is seeded per process
SetOrders(S) ==
    {s \in [1..Cardinality(S) -> S] : Range(s) = S}

\* the summary, were the features concatenated areas first
SummaryAreasFirst(layers) ==
    [type |-> "FeatureCollection",
     properties |-> [summary |->
        [total_features |-> Len(lines_features) + Len(areas_features),
         lines |-> Len(lines_features),
         areas |-> Len(areas_features),
         layers |-> layers,
         individual_files |-> individual_files]],
     features |-> areas_features \o lines_features]

SummaryDoc(layers) ==
    [type |-> "FeatureCollection",
     properties |-> [summary |->
        [total_features |-> Len(lines_features) + Len(areas_features),
         lines |-> Len(lines_features),
         areas |-> Len(areas_features),
         layers |-> layers,
         individual_files |-> individual_files]],
     features |-> lines_features \o areas_features]

\* after the loop: build the summary, write summary.geojson, return
WriteSummary ==
    /\ pc = "loop"
    /\ pos = Len(msp)
    /\ LET feats == lines_features \o areas_features
       IN  \E layers \in SetOrders({feats[i].properties.layer :
                                        i \in DOMAIN feats}) :
               summary' = <<SummaryDoc(layers)>>
    /\ pc' = "done"
    /\ UNCHANGED <<msp, allow_types, allow_layers, src_crs, Transformer, pos,
                   entity_index, lines_features, areas_features,
                   individual_files, disk, run, prevSummary, ent, ret>>

Next == ProcessEntity \/ WriteSummary

Spec == Init /\ [][Next]_vars

\* the same document and configuration run again, in a new process, into
\* an empty output directory
Rerun ==
    /\ pc = "done"
    /\ run = 1
    /\ run' = 2
    /\ prevSummary' = summary
    /\ pos' = 0
    /\ entity_index' = 0
    /\ lines_features' = <<>>
    /\ areas_features' = <<>>
    /\ individual_files' = <<>>
    /\ disk' = <<>>
    /\ summary' = <<>>
    /\ pc' = "loop"
    /\ UNCHANGED <<msp, allow_types, allow_layers, src_crs, Transformer,
                   ent, ret>>

NextRerun == ProcessEntity \/ WriteSummary \/ Rerun

SpecRerun == Init /\ [][NextRerun]_vars

-----------------------------------------------------------------------------
(* Functions applied on their own *)

Idle ==
    /\ msp = <<>>
    /\ allow_types = <<>>
    /\ allow_layers = <<>>
    /\ src_crs = <<>>
    /\ Transformer = TRUE
    /\ pos = 0
    /\ entity_index = 0
    /\ lines_features = <<>>
    /\ areas_features = <<>>
    /\ individual_files = <<>>
    /\ disk = <<>>
    /\ summary = <<>>
    /\ pc = "call"
    /\ run = 1
    /\ prevSummary = <<>>

UnchangedDriver ==
    UNCHANGED <<msp, allow_types, allow_layers, src_crs, Transformer, pos,
                entity_index, lines_features, areas_features,
                individual_files, disk, summary, pc, run, prevSummary>>

ArcStarts == {0, 90, 359}

InitArc ==
    /\ Idle
    /\ \E s \in ArcStarts, e \in 0..FullTurn, good \in BOOLEAN :
           ent = [E0 EXCEPT !.dxftype = "ARC", !.radius = 10, !.ok = good,
                            !.start_angle = s, !.end_angle = e]
    /\ ret = <<>>

CallArc ==
    /\ ret = <<>>
    /\ ret' = <<_approximate_arc(ent)>>
    /\ UNCHANGED ent
    /\ UnchangedDriver

SpecArc == InitArc /\ [][CallArc]_vars

PathKinds == {EdgePath, BadPath, PolyPath(<<>>), PolyPath(Tri), PolyPath(Quad)}

InitHatch ==
    /\ Idle
    /\ \E ps \in SeqsUpTo(PathKinds, MaxPaths), good \in BOOLEAN :
           ent = [E0 EXCEPT !.dxftype = "HATCH", !.ok = good, !.paths = ps]
    /\ ret = <<>>

CallHatch ==
    /\ ret = <<>>
    /\ ret' = <<_collect_area_coords(ent)>>
    /\ UNCHANGED ent
    /\ UnchangedDriver

SpecHatch == InitHatch /\ [][CallHatch]_vars

-----------------------------------------------------------------------------
(* Vocabulary of the properties *)

\* reading a file name back: its segments around the last underscore
LastUnderscore(f) ==
    CHOOSE i \in DOMAIN f : f[i] = "_" /\ \A j \in (i + 1)..Len(f) : f[j] # "_"

DigitVal(c) == CHOOSE d \in 0..9 : Digit[d + 1] = c

RECURSIVE ParseInt(_)
ParseInt(ds) ==
    IF ds = <<>> THEN 0
    ELSE 10 * ParseInt(SubSeq(ds, 1, Len(ds) - 1)) + DigitVal(ds[Len(ds)])

IndexSegment(f) == ParseInt(SubSeq(f, LastUnderscore(f) + 1, Len(f) - 1))
TypeSegment(f) == f[LastUnderscore(f) - 1]

\* the entity the loop is about to take, when it is about to take one
AtEntity == pc = "loop" /\ pos < Len(msp)
Current == msp[pos + 1]

FilteredOut(e) == TypeFiltered(e) \/ LayerFiltered(e)

\* points each path yields (none when the path gives None or raises)
LinePoints(e) ==
    LET r == _collect_line_coords(e) IN IF r.st = "ok" THEN Len(r.pts) ELSE 0
AreaPoints(e) ==
    LET r == _collect_area_coords(e) IN IF r.st = "ok" THEN Len(r.pts) ELSE 0

ClassifiesNone(e) == LinePoints(e) < 2 /\ AreaPoints(e) < 3
Accepted(e) == ~FilteredOut(e) /\ ~ClassifiesNone(e)

\* the entities consumed so far that were accepted, in stream order
AcceptedSoFar == SelectSeq(SubSeq(msp, 1, pos), Accepted)

Features == lines_features \o areas_features

NoOutput ==
    /\ disk' = disk
    /\ individual_files' = individual_files
    /\ lines_features' = lines_features
    /\ areas_features' = areas_features

-----------------------------------------------------------------------------
(* C1: file-name indices are dense *)

C1_IndicesInOrder ==
    /\ \A k \in DOMAIN individual_files :
           IndexSegment(individual_files[k]) = k - 1
    /\ \A j, k \in DOMAIN individual_files :
           j # k => individual_files[j] # individual_files[k]
    /\ Len(individual_files) = Len(AcceptedSoFar)
    /\ DOMAIN disk = {individual_files[k] : k \in DOMAIN individual_files}

C1_RejectedStep ==
    (AtEntity /\ ~Accepted(Current))
        => (NoOutput /\ entity_index' = entity_index)

\* C1: the k-th accepted entity of the stream (k from 0, lines and areas on
\* one counter) is written to the file whose index segment is k, so the
\* indices of a run are 0..n-1 and its file names pairwise distinct; an
\* entity filtered out or classified None writes no file and leaves
\* entity_index alone.
C1_DenseIndices == []C1_IndicesInOrder /\ [][C1_RejectedStep]_vars

\* an accepted entity after a rejected one after an accepted one
C1_Witness ==
    /\ pos = 3
    /\ Accepted(msp[1]) /\ ~Accepted(msp[2]) /\ Accepted(msp[3])
    /\ Len(individual_files) = 2
    /\ SafeLayer(LayerOr0(msp[1])) = SafeLayer(LayerOr0(msp[3]))
    /\ msp[1].dxftype = msp[3].dxftype

-----------------------------------------------------------------------------
(* C2: the counters agree and the summary reports them *)

C2_Counters ==
    /\ entity_index = Len(lines_features) + Len(areas_features)
    /\ entity_index = Len(individual_files)
    /\ entity_index = Cardinality(DOMAIN disk)

C2_Summary ==
    summary # <<>> =>
        LET doc == summary[1]
            sm == doc.properties.summary
        IN  /\ sm.total_features = sm.lines + sm.areas
            /\ sm.total_features = Len(sm.individual_files)
            /\ sm.total_features = Len(doc.features)
            /\ sm.lines = Len(lines_features)
            /\ sm.areas = Len(areas_features)
            /\ sm.individual_files =
                   [k \in 1..Len(AcceptedSoFar) |->
                       _generate_filename(AcceptedSoFar[k], k - 1)]
            /\ \A i \in DOMAIN doc.features :
                   doc.features[i].geometry.type =
                       IF i <= sm.lines THEN "LineString" ELSE "Polygon"

\* C2: after every iteration entity_index = len(lines_features) +
\* len(areas_features) = len(individual_files) = number of files written;
\* the summary reports total_features = lines + areas = length of
\* individual_files, lists the files in acceptance order, and its features
\* are the line features followed by the area features.
C2_CountsAndSummary == C2_Counters /\ C2_Summary

\* an area accepted before a line: file order and feature order differ
C2_Witness ==
    /\ pc = "done"
    /\ Len(lines_features) >= 1
    /\ Len(areas_features) >= 1
    /\ TypeSegment(individual_files[1]) = areas_features[1].properties.type

-----------------------------------------------------------------------------
(* C3: acceptance thresholds *)

FeatureMeetsThreshold(f) ==
    IF f.geometry.type = "LineString"
    THEN Len(f.geometry.coordinates) >= 2
    ELSE /\ f.geometry.type = "Polygon"
         /\ Len(f.geometry.coordinates) = 1
         /\ Len(f.geometry.coordinates[1]) >= 3

C3_Emitted ==
    /\ \A i \in DOMAIN Features : FeatureMeetsThreshold(Features[i])
    /\ \A n \in DOMAIN disk : FeatureMeetsThreshold(disk[n])
    /\ summary # <<>> =>
           \A i \in DOMAIN summary[1].features :
               FeatureMeetsThreshold(summary[1].features[i])

C3_BelowStep == (AtEntity /\ ClassifiesNone(Current)) => NoOutput

\* C3: every LineString feature has at least 2 coordinates and every
\* Polygon feature one ring of at least 3; an entity whose line path
\* yields fewer than 2 points and whose area path yields fewer than 3
\* produces no feature.
C3_Thresholds == []C3_Emitted /\ [][C3_BelowStep]_vars

\* a 2-point line and a 3-point ring emitted, a 1-vertex polyline skipped
C3_Witness ==
    /\ \E i \in DOMAIN lines_features :
           Len(lines_features[i].geometry.coordinates) = 2
    /\ \E i \in DOMAIN areas_features :
           Len(areas_features[i].geometry.coordinates[1]) = 3
    /\ \E i \in 1..pos :
           /\ ~FilteredOut(msp[i])
           /\ msp[i].ok
           /\ Len(msp[i].pts) = 1

-----------------------------------------------------------------------------
(* C4: the type filter *)

InAllowTypes(t) ==
    allow_types # <<>> => \E a \in allow_types[1] : Upper(a) = Upper(t)

C4_AllAllowed ==
    /\ \A i \in DOMAIN Features : InAllowTypes(Features[i].properties.type)
    /\ \A n \in DOMAIN disk :
           InAllowTypes(disk[n].properties.type) /\ InAllowTypes(TypeSegment(n))
    /\ summary # <<>> =>
           \A i \in DOMAIN summary[1].features :
               InAllowTypes(summary[1].features[i].properties.type)

C4_OnlyLine ==
    allow_types = <<{"LINE"}>> =>
        /\ \A n \in DOMAIN disk : TypeSegment(n) = "LINE"
        /\ \A k \in DOMAIN individual_files :
               TypeSegment(individual_files[k]) = "LINE"
        /\ summary # <<>> =>
               \A i \in DOMAIN summary[1].features :
                   summary[1].features[i].geometry.type = "LineString"

\* C4: every emitted feature comes from an entity whose type, compared
\* case-insensitively, is in allow_types; with allow_types = {"LINE"} every
\* file name has type segment LINE and the summary holds only LineStrings.
C4_TypeFilter == C4_AllAllowed /\ C4_OnlyLine

\* a LINE emitted under {"LINE"} in a stream that also held other types
C4_Witness ==
    /\ allow_types = <<{"LINE"}>>
    /\ pc = "done"
    /\ Len(summary[1].features) >= 1
    /\ \E i \in 1..pos : msp[i].dxftype \in {"CIRCLE", "LWPOLYLINE"}
    /\ \E i \in 1..pos : msp[i].dxftype = "line"

-----------------------------------------------------------------------------
(* C5: two runs on the same input *)

\* C5: a second run on the same entity stream with the same configuration
\* into an empty output directory writes the same summary.geojson as the
\* first, the order of properties.summary.layers included.
C5_SameSummary == (run = 2 /\ pc = "done") => summary = prevSummary

-----------------------------------------------------------------------------
(* C6: a source CRS without the transform capability *)

\* C6: with src_crs given and Transformer None the run never completes
\* normally by writing summary.geojson, whatever the entity stream, and
\* no individual file is written before the error.
C6_NoTransformerIsFatal ==
    (src_crs # <<>> /\ ~Transformer) =>
        (pc # "done" /\ summary = <<>> /\ disk = <<>>)

-----------------------------------------------------------------------------
(* C7: malformed entities *)

\* C7: a field-access failure while classifying an entity is never fatal:
\* no exception leaves the loop, so the run goes on to the remaining
\* entities and the summary.
C7_FieldFailureNotFatal == pc # "error"

-----------------------------------------------------------------------------
(* C8: arc sampling *)

ArcSweep(e) == NormalizedEnd(e.start_angle, e.end_angle) - e.start_angle

\* the returned list has n + 1 points, the first at the start angle and the
\* last at the (normalized) end angle
ArcSampledIn(points, e, n) ==
    /\ Len(points) = n + 1
    /\ points[1].num = e.start_angle * points[1].den
    /\ points[n + 1].num =
           NormalizedEnd(e.start_angle, e.end_angle) * points[n + 1].den

\* C8 as claimed: N = max(8, round(sweep / 5)) steps, N + 1 points, the
\* first at the start angle and the last at the end angle.
C8_RoundedSteps ==
    (ret # <<>> /\ ent.ok) =>
        LET r == PyRound(ArcSweep(ent), DegPerStep)
        IN  ArcSampledIn(ret[1], ent, IF r >= MinArcSteps THEN r ELSE MinArcSteps)

\* C8 amended: N = max(8, floor(sweep / 5)) steps (the quotient truncated,
\* not rounded), N + 1 points, the first at the start angle and the last at
\* the end angle.
C8_TruncatedSteps ==
    (ret # <<>> /\ ent.ok) =>
        LET q == ArcSweep(ent) \div DegPerStep
        IN  ArcSampledIn(ret[1], ent, IF q >= MinArcSteps THEN q ELSE MinArcSteps)

\* a sweep of 43 degrees, where rounding and truncation differ (9 and 8)
C8_Witness ==
    /\ ret # <<>>
    /\ ent.ok
    /\ ArcSweep(ent) = 43
    /\ Len(ret[1]) = 9

-----------------------------------------------------------------------------
(* C9: the boundary path a HATCH is read from *)

PathUsable(path) == path.hasVertices /\ path.ok /\ path.vertices # <<>>

\* C9 as claimed: the geometry is the vertex list of the path at position 0
\* of entity.paths; without a usable vertex list there, none.
C9_PathAtZero ==
    ret # <<>> =>
        ret[1] = IF ent.ok /\ ent.paths # <<>> /\ PathUsable(ent.paths[1])
                 THEN Ok(XYList(ent.paths[1].vertices))
                 ELSE None

\* C9 amended: the geometry is the vertex list of the first path, in
\* entity.paths order, that has a `vertices` attribute and a non-empty
\* vertex list (paths before it without one are passed over); it is None
\* when no path has one, and when reading entity.paths or the vertices of
\* any path fails.
C9_FirstUsablePath ==
    ret # <<>> =>
        LET ps == ent.paths
            failed == ~ent.ok \/ \E i \in DOMAIN ps :
                                     ps[i].hasVertices /\ ~ps[i].ok
            usable == {i \in DOMAIN ps : PathUsable(ps[i])}
        IN  IF failed \/ usable = {} THEN ret[1] = None
            ELSE \E i \in usable :
                    /\ \A j \in usable : i <= j
                    /\ ret[1] = Ok(XYList(ps[i].vertices))

\* an edge path first, then two polyline paths: the second path is returned
C9_Witness ==
    /\ ret # <<>>
    /\ ent.ok
    /\ Len(ent.paths) = 3
    /\ ~ent.paths[1].hasVertices
    /\ PathUsable(ent.paths[2])
    /\ PathUsable(ent.paths[3])
    /\ ent.paths[2] # ent.paths[3]
    /\ ret[1] = Ok(XYList(ent.paths[2].vertices))

-----------------------------------------------------------------------------
(* C10: polylines are never areas *)

Polylines == {"LWPOLYLINE", "POLYLINE"}

C10_PolygonSources ==
    /\ \A i \in DOMAIN areas_features :
           /\ areas_features[i].geometry.type = "Polygon"
           /\ areas_features[i].properties.type
                  \in {"CIRCLE", "ELLIPSE", "ARC", "HATCH"}
    /\ \A n \in DOMAIN disk :
           disk[n].geometry.type = "Polygon" =>
               disk[n].properties.type \in {"CIRCLE", "ELLIPSE", "ARC", "HATCH"}
    /\ \A i \in DOMAIN lines_features :
           lines_features[i].geometry.type = "LineString"

\* a readable polyline that passes the filters: a LineString when it has 2
\* or more vertices (unless the transform exits), nothing otherwise
C10_PolylineStep ==
    (AtEntity /\ Current.dxftype \in Polylines /\ Current.ok
        /\ ~FilteredOut(Current))
    => IF Len(Current.pts) >= 2
       THEN \/ pc' = "exit" /\ NoOutput
            \/ /\ Len(lines_features') = Len(lines_features) + 1
               /\ lines_features'[Len(lines_features')].properties.type
                      = Current.dxftype
               /\ lines_features'[Len(lines_features')].geometry.type
                      = "LineString"
               /\ Len(lines_features'[Len(lines_features')].geometry.coordinates)
                      = Len(Current.pts)
               /\ areas_features' = areas_features
       ELSE NoOutput /\ pos' = pos + 1

\* C10: no LWPOLYLINE or POLYLINE is ever emitted as a Polygon, whatever
\* its closed flag and vertex count: with 2 or more vertices it becomes a
\* LineString, with fewer it is skipped; Polygons come only from CIRCLE,
\* ELLIPSE, ARC and HATCH entities.
C10_PolylinesNeverPolygons == []C10_PolygonSources /\ [][C10_PolylineStep]_vars

\* a closed polyline of 3 or more vertices emitted as a LineString beside
\* a Polygon, and a closed 1-vertex polyline skipped
C10_Witness ==
    /\ \E i \in 1..pos :
           /\ msp[i].dxftype \in Polylines /\ msp[i].closed /\ msp[i].ok
           /\ Len(msp[i].pts) >= 3
           /\ \E k \in DOMAIN lines_features :
                  /\ lines_features[k].properties.type = msp[i].dxftype
                  /\ Len(lines_features[k].geometry.coordinates) = Len(msp[i].pts)
    /\ \E i \in 1..pos :
           /\ msp[i].dxftype \in Polylines /\ msp[i].closed /\ msp[i].ok
           /\ Len(msp[i].pts) = 1 /\ ~FilteredOut(msp[i])
    /\ Len(areas_features) >= 1

====
